---- MODULE Spec2Model ----
(***************************************************************************)
(* Lytikz API (src/main.py): ingestion of analytics events into the        *)
(* "event" collection, bounded retrieval (list, query) with normalisation  *)
(* for transport, and the rule-based ask dispatcher.                       *)
(*                                                                         *)
(* Python values are modelled as tagged records [t |-> type, v |-> value], *)
(* so that isinstance tests and str()/isoformat() conversions are real     *)
(* operations of the model.  A question is the sequence of its characters. *)
(***************************************************************************)
EXTENDS Integers, Sequences, FiniteSets, TLC

\* store:    the documents of the "event" collection, in insertion order
\* now:      the process clock, in seconds
\* workers:  the threads that run ingest_event
\* resp:     the response being sent to a caller
\* accepted: for each persisted event, the body it came from and the instant
\*           at which ingest_event accepted it (a record of the history)
VARIABLES store, now, workers, resp, accepted

vars == <<store, now, workers, resp, accepted>>

(* ------------------------------ bounds --------------------------------- *)

\* Events the running process ingests.
MaxEvents == 3
\* Last instant of the process clock.
MaxClock == 1
\* Events held by a collection that earlier runs of the process filled.
MaxPreload == 2

(* --------------------------- Python values ----------------------------- *)

None == [t |-> "NoneType", v |-> ""]
\* A key that the JSON body of the request does not carry.
Absent == [t |-> "absent", v |-> ""]
Str(s) == [t |-> "str", v |-> s]
Datetime(n) == [t |-> "datetime", v |-> n]
ObjectId(n) == [t |-> "ObjectId", v |-> n]
Dict(f) == [t |-> "dict", v |-> f]
IntV(n) == [t |-> "int", v |-> n]

EmptyDict == Dict([k \in {} |-> None])

\* isinstance(v, datetime)
IsDatetime(v) == v.t = "datetime"

\* bool(v) for the values a request can carry in an Optional[str] field.
Truthy(v) == v.t = "str" /\ v.v # ""

\* datetime.isoformat(): an aware UTC instant, n seconds after the epoch.
Pad2(n) == IF n < 10 THEN "0" \o ToString(n) ELSE ToString(n)
isoformat(d) ==
    Str("1970-01-01T" \o Pad2(d.v \div 3600) \o ":" \o Pad2((d.v \div 60) % 60)
        \o ":" \o Pad2(d.v % 60) \o "+00:00")

\* str(ObjectId)
StrOfId(o) == Str("65f0c0ffee00000000000" \o ToString(o.v))

\* The instants a caller may name in a request.
Instants == 0 .. (MaxClock + 1)

\* Parsing of an ISO-8601 string into a datetime by the payload model.
IsIsoString(v) == v.t = "str" /\ \E n \in Instants : isoformat(Datetime(n)) = v
fromisoformat(v) == Datetime(CHOOSE n \in Instants : isoformat(Datetime(n)) = v)

(* ------------------------- the "event" collection ---------------------- *)
(* database.py and schemas.py are not part of the sources at hand: Event,  *)
(* create_document and get_documents follow sections 3, 4.1 and 4.2 of the *)
(* specification.                                                          *)

\* schemas.Event: the event name is required and non-empty.
EventValid(p) == p.event.t = "str" /\ p.event.v # ""

\* Event(**payload.model_dump()): the four fields of the payload.
Event(p) ==
    [event |-> p.event, user_id |-> p.user_id,
     properties |-> p.properties, timestamp |-> p.timestamp]

\* The identifier the store gives to the next inserted document.
NextId(coll) == ObjectId(Len(coll) + 1)

\* insert: appends one document, which gains the store's identifier.
InsertOne(coll, evt) ==
    Append(coll, [k \in DOMAIN evt \cup {"_id"} |->
                    IF k = "_id" THEN NextId(coll) ELSE evt[k]])

\* create_document(collection, evt) returns the identifier as a string.
create_document(coll, evt) == StrOfId(NextId(coll))

\* An exact-match filter: every field of the filter equals the document's.
Matches(doc, filt) ==
    \A k \in DOMAIN filt : k \in DOMAIN doc /\ doc[k] = filt[k]

\* The documents of coll that match filt, in the order of the collection.
Find(coll, filt) ==
    LET Test(doc) == Matches(doc, filt)
    IN  SelectSeq(coll, Test)

Min(a, b) == IF a < b THEN a ELSE b

\* cursor.limit(n)
Limit(s, n) == SubSeq(s, 1, Min(n, Len(s)))

\* get_documents(collection, filter, limit): find with a filter and a limit.
get_documents(coll, filt, limit) == Limit(Find(coll, filt), limit)

(* ------------------------- pymongo primitives -------------------------- *)

\* collection.count_documents(filt)
count_documents(coll, filt) ==
    Cardinality({i \in 1 .. Len(coll) : Matches(coll[i], filt)})

\* "$field" in a pipeline: a missing field reads as null.
FieldOrNull(doc, f) == IF f \in DOMAIN doc THEN doc[f] ELSE None

\* {"$group": {"_id": "$field", "count": {"$sum": 1}}}
Group(coll, f) ==
    { [_id |-> k,
       count |-> Cardinality({i \in 1 .. Len(coll) : FieldOrNull(coll[i], f) = k})] :
      k \in {FieldOrNull(coll[i], f) : i \in 1 .. Len(coll)} }

\* Every arrangement of the finite set S as a sequence.
PermSeqs(S) ==
    {p \in [1 .. Cardinality(S) -> S] : \A x \in S : \E i \in DOMAIN p : p[i] = x}

\* The largest member of a set of integers.
SetMax(S) ==
    LET neg == {0 - n : n \in S}
    IN  0 - (CHOOSE m \in neg : \A n \in neg : m <= n)

RECURSIVE SortDescLimit(_, _, _)
\* Every result that a descending sort of the rows S by Key[row], cut to its
\* first n rows, may give: the store does not define the order among rows of
\* equal key.
SortDescLimit(S, Key, n) ==
    IF S = {} \/ n <= 0 THEN {<<>>}
    ELSE LET m == SetMax({Key[r] : r \in S})
             top == {r \in S : Key[r] = m}
         IN  {Limit(p \o q, n) :
                p \in PermSeqs(top),
                q \in SortDescLimit(S \ top, Key, n - Cardinality(top))}

\* collection.aggregate([$group by f, $sort count -1, $limit n])
aggregate(coll, f, n) ==
    LET rows == Group(coll, f)
    IN  SortDescLimit(rows, [r \in rows |-> r.count], n)

\* collection.find({}, projection).sort("timestamp", -1).limit(n)
find_recent(coll, fields, n) ==
    LET idx == 1 .. Len(coll)
        proj(i) == [k \in (fields \cup {"_id"}) \cap DOMAIN coll[i] |-> coll[i][k]]
    IN  {[j \in DOMAIN s |-> proj(s[j])] :
           s \in SortDescLimit(idx, [i \in idx |-> coll[i]["timestamp"].v], n)}

(* ------------------------------ strings -------------------------------- *)
(* A str that the dispatcher inspects is the sequence of its characters.   *)

Upper == <<"A","B","C","D","E","F","G","H","I","J","K","L","M","N","O","P","Q","R","S","T","U","V","W","X","Y","Z">>
LowerCase == <<"a","b","c","d","e","f","g","h","i","j","k","l","m","n","o","p","q","r","s","t","u","v","w","x","y","z">>

LowerChar(c) ==
    IF \E i \in DOMAIN Upper : Upper[i] = c
    THEN LowerCase[CHOOSE i \in DOMAIN Upper : Upper[i] = c]
    ELSE c

\* str.lower()
lower(s) == [i \in DOMAIN s |-> LowerChar(s[i])]

IsSpace(c) == c \in {" ", "\t", "\n"}

RECURSIVE lstrip(_)
lstrip(s) == IF s # <<>> /\ IsSpace(Head(s)) THEN lstrip(Tail(s)) ELSE s

RECURSIVE rstrip(_)
rstrip(s) ==
    IF s # <<>> /\ IsSpace(s[Len(s)]) THEN rstrip(SubSeq(s, 1, Len(s) - 1)) ELSE s

\* str.strip()
strip(s) == rstrip(lstrip(s))

\* needle in s
Contains(needle, s) ==
    \E i \in 1 .. (Len(s) - Len(needle) + 1) :
        SubSeq(s, i, i + Len(needle) - 1) = needle

\* The substrings the dispatcher looks for.
N_total == <<"t", "o", "t", "a", "l">>
N_how_many == <<"h", "o", "w", " ", "m", "a", "n", "y">>
N_event == <<"e", "v", "e", "n", "t">>
N_by_user == <<"b", "y", " ", "u", "s", "e", "r">>
N_per_user == <<"p", "e", "r", " ", "u", "s", "e", "r">>
N_by_event == <<"b", "y", " ", "e", "v", "e", "n", "t">>
N_per_event == <<"p", "e", "r", " ", "e", "v", "e", "n", "t">>
N_events_by_name == <<"e", "v", "e", "n", "t", "s", " ", "b", "y", " ", "n", "a", "m", "e">>

\* The questions asked of the dispatcher.
Q_total_events_by_user == <<"t", "o", "t", "a", "l", " ", "e", "v", "e", "n", "t", "s", " ", "b", "y", " ", "u", "s", "e", "r">>
Q_how_many_signup == <<"h", "o", "w", " ", "m", "a", "n", "y", " ", "s", "i", "g", "n", "u", "p">>
Q_How_many_events == <<"H", "o", "w", " ", "m", "a", "n", "y", " ", "e", "v", "e", "n", "t", "s", "?">>
Q_count_by_user == <<"c", "o", "u", "n", "t", " ", "b", "y", " ", "u", "s", "e", "r">>
Q_Events_PER_USER == <<" ", "E", "v", "e", "n", "t", "s", " ", "P", "E", "R", " ", "U", "S", "E", "R", " ">>
Q_events_by_event == <<"e", "v", "e", "n", "t", "s", " ", "b", "y", " ", "e", "v", "e", "n", "t">>
Q_events_by_name == <<"e", "v", "e", "n", "t", "s", " ", "b", "y", " ", "n", "a", "m", "e">>
Q_per_event_by_user == <<"p", "e", "r", " ", "e", "v", "e", "n", "t", " ", "b", "y", " ", "u", "s", "e", "r">>
Q_how_many_per_user == <<"h", "o", "w", " ", "m", "a", "n", "y", " ", "p", "e", "r", " ", "u", "s", "e", "r">>
Q_asdkjasdlkj == <<"a", "s", "d", "k", "j", "a", "s", "d", "l", "k", "j">>
Q_empty == <<>>
Q_TOTAL == <<" ", " ", "T", "O", "T", "A", "L", " ">>
Q_subtotals_per_event == <<"s", "u", "b", "t", "o", "t", "a", "l", "s", " ", "p", "e", "r", " ", "e", "v", "e", "n", "t">>

Questions ==
    {Q_total_events_by_user,
     Q_how_many_signup,
     Q_How_many_events,
     Q_count_by_user,
     Q_Events_PER_USER,
     Q_events_by_event,
     Q_events_by_name,
     Q_per_event_by_user,
     Q_how_many_per_user,
     Q_asdkjasdlkj,
     Q_empty,
     Q_TOTAL,
     Q_subtotals_per_event}

(* ----------------------------- requests -------------------------------- *)

Props1 == [plan |-> Str("pro"), meta |-> Dict([ref |-> Str("ad")])]

EventNames == {"signup", "login"}

\* JSON bodies of POST /api/events.
IngestBody(e, u, p, ts) == [event |-> e, user_id |-> u, properties |-> p, timestamp |-> ts]
IngestBodies ==
    {IngestBody(Str("signup"), Str("u1"), Absent, Absent),
     IngestBody(Str("login"), Absent, Dict(Props1), isoformat(Datetime(1))),
     IngestBody(Str("login"), Str("u1"), Absent, isoformat(Datetime(0))),
     IngestBody(Absent, Str("u1"), Absent, Absent),
     IngestBody(Str(""), Str("u1"), Absent, Absent),
     IngestBody(Str("signup"), Absent, Absent, Str("yesterday"))}

\* Values of the limit parameter of GET /api/events.
ListLimits == {Absent, IntV(0), IntV(1), IntV(2), IntV(500), IntV(501)}

\* JSON bodies of POST /api/query.
QueryBodies ==
    [filter : {Absent, Dict([event |-> Str("signup")]), Dict([user_id |-> Str("u1")])},
     limit : {Absent, IntV(1), Str("ten")}]

\* JSON bodies of POST /api/ask.
AskBodies ==
    [question : {Absent} \cup {[t |-> "chars", v |-> q] : q \in Questions},
     event : {Absent, Str("")} \cup {Str(e) : e \in EventNames}]

\* One question of each intent, for the runs that also ingest.
CoreAskBodies ==
    [question : {Absent} \cup {[t |-> "chars", v |-> q] : q \in
                    {Q_total_events_by_user, Q_count_by_user, Q_events_by_name, Q_asdkjasdlkj}},
     event : {Absent, Str("signup")}]

(* ----------------------------- responses ------------------------------- *)

\* What the caller receives: the status code and the JSON body; op and req
\* name the request answered and called the store primitive it invoked.
Response(op, req, status, body, called) ==
    [op |-> op, req |-> req, status |-> status, body |-> body, called |-> called]

NoResponse == Response("none", Absent, 0, [detail |-> ""], "none")

\* The framework rejects a request that fails its declared parameter model
\* before the handler runs.
Unprocessable(op, req) ==
    Response(op, req, 422, [detail |-> "value is not valid"], "none")

\* raise HTTPException(status_code=500, detail=str(e))
ServerError(op, req, msg, called) ==
    Response(op, req, 500, [detail |-> msg], called)

\* The response has left the process: the next request is taken.  (resp is
\* never read by a handler, so taking requests one response at a time leaves
\* out no state of the collection, the clock or the workers.)
Listening == resp = NoResponse

Reply ==
    /\ resp # NoResponse
    /\ resp' = NoResponse
    /\ UNCHANGED <<store, now, workers, accepted>>

StorageFailureMsg == "database not available"
ValidationErrorMsg == "1 validation error for Event"

(* ------------------------------ ingest --------------------------------- *)

\* IngestEventPayload accepts the body.
IngestPayloadValid(b) ==
    /\ b.event.t = "str"
    /\ b.user_id.t \in {"absent", "NoneType", "str"}
    /\ b.properties.t \in {"absent", "dict"}
    /\ b.timestamp.t \in {"absent", "NoneType"} \/ IsIsoString(b.timestamp)

\* IngestEventPayload(**body): defaults filled in, the timestamp parsed.
IngestEventPayload(b) ==
    [event |-> b.event,
     user_id |-> IF b.user_id.t = "absent" THEN None ELSE b.user_id,
     properties |-> IF b.properties.t = "absent" THEN EmptyDict ELSE b.properties,
     timestamp |-> IF b.timestamp.t \in {"absent", "NoneType"}
                   THEN None ELSE fromisoformat(b.timestamp)]

\* A slip: the timestamp is set to the clock's instant whatever the caller gave.
WithTimestamp_overwrite(evt, clock) == [evt EXCEPT !.timestamp = Datetime(clock)]

\* if evt.timestamp is None: evt.timestamp = datetime.now(timezone.utc)
WithTimestamp(evt, clock) ==
    IF evt.timestamp = None
    THEN [evt EXCEPT !.timestamp = Datetime(clock)]
    ELSE evt

Workers == {"w1", "w2"}

IdleWorker == [pc |-> "idle", body |-> Absent, evt |-> Absent, at |-> 0]

Busy == Cardinality({w \in Workers : workers[w].pc # "idle"})

\* ingest_event up to the call of create_document: the body is validated,
\* the Event is built and its timestamp is set.
IngestBegin(w, b) ==
    /\ Listening
    /\ workers[w].pc = "idle"
    /\ IF ~IngestPayloadValid(b)
       THEN /\ resp' = Unprocessable("ingest", b)
            /\ UNCHANGED workers
       ELSE IF ~EventValid(IngestEventPayload(b))
       THEN /\ resp' = ServerError("ingest", b, ValidationErrorMsg, "none")
            /\ UNCHANGED workers
       ELSE /\ Len(store) + Busy < MaxEvents
            /\ workers' = [workers EXCEPT ![w] =
                  [pc |-> "insert", body |-> b,
                   evt |-> WithTimestamp(Event(IngestEventPayload(b)), now),
                   at |-> now]]
            /\ UNCHANGED resp
    /\ UNCHANGED <<store, now, accepted>>

\* A slip: an event equal to a persisted one is answered with that one's
\* identifier and not inserted.
IngestInsert_dedupe(w, up) ==
    /\ Listening
    /\ workers[w].pc = "insert"
    /\ LET same == {i \in 1 .. Len(store) :
                      \A k \in DOMAIN workers[w].evt : store[i][k] = workers[w].evt[k]}
       IN  IF up /\ same = {}
           THEN /\ store' = InsertOne(store, workers[w].evt)
                /\ accepted' = Append(accepted, [at |-> workers[w].at, body |-> workers[w].body])
                /\ resp' = Response("ingest", workers[w].body, 200,
                      [status |-> "ok", id |-> create_document(store, workers[w].evt)],
                      "insert")
           ELSE IF up
           THEN /\ resp' = Response("ingest", workers[w].body, 200,
                      [status |-> "ok", id |-> StrOfId(store[CHOOSE i \in same : TRUE]["_id"])],
                      "insert")
                /\ UNCHANGED <<store, accepted>>
           ELSE /\ resp' = ServerError("ingest", workers[w].body, StorageFailureMsg, "insert")
                /\ UNCHANGED <<store, accepted>>
    /\ workers' = [workers EXCEPT ![w] = IdleWorker]
    /\ UNCHANGED now

\* ingest_event from the call of create_document to its response.
IngestInsert(w, up) ==
    /\ Listening
    /\ workers[w].pc = "insert"
    /\ IF up
       THEN /\ store' = InsertOne(store, workers[w].evt)
            /\ accepted' = Append(accepted, [at |-> workers[w].at, body |-> workers[w].body])
            /\ resp' = Response("ingest", workers[w].body, 200,
                  [status |-> "ok", id |-> create_document(store, workers[w].evt)],
                  "insert")
       ELSE /\ resp' = ServerError("ingest", workers[w].body, StorageFailureMsg, "insert")
            /\ UNCHANGED <<store, accepted>>
    /\ workers' = [workers EXCEPT ![w] = IdleWorker]
    /\ UNCHANGED now

(* ------------------------------- list ---------------------------------- *)

ListDefault == 50
ListMin == 1
ListMax == 500

\* A slip: lt=500 for le=500.
ListLimitValid_exclusive(l) ==
    l.t = "absent" \/ (l.t = "int" /\ ListMin <= l.v /\ l.v < ListMax)

\* limit: int = Query(50, ge=1, le=500)
ListLimitValid(l) == l.t = "absent" \/ (l.t = "int" /\ ListMin <= l.v /\ l.v <= ListMax)
ListLimit(l) == IF l.t = "absent" THEN ListDefault ELSE l.v

\* A slip: d["_id"] is read, not popped.
list_normalize_keepId(doc) ==
    LET d == IF "_id" \in DOMAIN doc
             THEN [k \in DOMAIN doc \cup {"id"} |->
                     IF k = "id" THEN StrOfId(doc["_id"]) ELSE doc[k]]
             ELSE doc
    IN  [k \in DOMAIN d |-> IF IsDatetime(d[k]) THEN isoformat(d[k]) ELSE d[k]]

\* normalize(doc) of list_events
list_normalize(doc) ==
    LET d == IF "_id" \in DOMAIN doc
             THEN [k \in (DOMAIN doc \ {"_id"}) \cup {"id"} |->
                     IF k = "id" THEN StrOfId(doc["_id"]) ELSE doc[k]]
             ELSE doc
    IN  [k \in DOMAIN d |-> IF IsDatetime(d[k]) THEN isoformat(d[k]) ELSE d[k]]

\* A slip: the bounds of limit are tested inside the handler's try block.
list_events_inside(l, up) ==
    IF ~up THEN ServerError("list", l, StorageFailureMsg, "find")
    ELSE IF ~ListLimitValid(l) THEN ServerError("list", l, ValidationErrorMsg, "none")
    ELSE LET docs == get_documents(store, <<>>, ListLimit(l))
         IN  Response("list", l, 200,
                      [items |-> [i \in DOMAIN docs |-> list_normalize(docs[i])]],
                      "find")

list_events(l, up) ==
    IF ~ListLimitValid(l) THEN Unprocessable("list", l)
    ELSE IF ~up THEN ServerError("list", l, StorageFailureMsg, "find")
    ELSE LET docs == get_documents(store, <<>>, ListLimit(l))
         IN  Response("list", l, 200,
                      [items |-> [i \in DOMAIN docs |-> list_normalize(docs[i])]],
                      "find")

List(l, up) ==
    /\ Listening
    /\ resp' = list_events(l, up)
    /\ UNCHANGED <<store, now, workers, accepted>>

(* ------------------------------- query --------------------------------- *)

QueryDefault == 100

\* QueryPayload accepts the body.
QueryPayloadValid(b) ==
    /\ b.filter.t \in {"absent", "NoneType", "dict"}
    /\ b.limit.t \in {"absent", "int"}

\* filt = payload.filter or {}
QueryFilter(b) ==
    IF b.filter.t = "dict" /\ DOMAIN b.filter.v # {} THEN b.filter.v ELSE <<>>
QueryLimit(b) == IF b.limit.t = "absent" THEN QueryDefault ELSE b.limit.v

\* normalize(doc) of query_events
query_normalize(doc) ==
    LET d == IF "_id" \in DOMAIN doc
             THEN [k \in (DOMAIN doc \ {"_id"}) \cup {"id"} |->
                     IF k = "id" THEN StrOfId(doc["_id"]) ELSE doc[k]]
             ELSE doc
    IN  [k \in DOMAIN d |-> IF IsDatetime(d[k]) THEN isoformat(d[k]) ELSE d[k]]

query_events(b, up) ==
    IF ~QueryPayloadValid(b) THEN Unprocessable("query", b)
    ELSE IF ~up THEN ServerError("query", b, StorageFailureMsg, "find")
    ELSE LET docs == get_documents(store, QueryFilter(b), QueryLimit(b))
         IN  Response("query", b, 200,
                      [items |-> [i \in DOMAIN docs |-> query_normalize(docs[i])]],
                      "find")

Query(b, up) ==
    /\ Listening
    /\ resp' = query_events(b, up)
    /\ UNCHANGED <<store, now, workers, accepted>>

(* -------------------------------- ask ---------------------------------- *)

UserLimit == 20
EventLimit == 50
RecentLimit == 20

\* AskPayload accepts the body.
AskPayloadValid(b) ==
    /\ b.question.t = "chars"
    /\ b.event.t \in {"absent", "NoneType", "str"}

\* payload.event, None by default.
AskEvent(b) == IF b.event.t = "absent" THEN None ELSE b.event

\* A slip: the by-user test comes before the total-count test.
Intent_byUserFirst(q, ev) ==
    IF Contains(N_by_user, q) \/ Contains(N_per_user, q)
    THEN "by_user"
    ELSE IF Contains(N_total, q)
            \/ (Contains(N_how_many, q) /\ (Contains(N_event, q) \/ Truthy(ev)))
    THEN "total"
    ELSE IF Contains(N_by_event, q) \/ Contains(N_per_event, q)
            \/ Contains(N_events_by_name, q)
    THEN "by_event"
    ELSE "recent"

\* The chain of tests of ask_question on q = payload.question.lower().strip();
\* "and" binds tighter than "or".
Intent(q, ev) ==
    IF Contains(N_total, q)
       \/ (Contains(N_how_many, q) /\ (Contains(N_event, q) \/ Truthy(ev)))
    THEN "total"
    ELSE IF Contains(N_by_user, q) \/ Contains(N_per_user, q)
    THEN "by_user"
    ELSE IF Contains(N_by_event, q) \/ Contains(N_per_event, q)
            \/ Contains(N_events_by_name, q)
    THEN "by_event"
    ELSE "recent"

\* A slip: the eventFilter is not applied.
TotalFilter_none(ev) == <<>>

\* filt = {"event": payload.event} if payload.event else {}
TotalFilter(ev) == IF Truthy(ev) THEN [event |-> ev] ELSE <<>>

TotalAnswer(coll, ev) ==
    LET count == count_documents(coll, TotalFilter(ev))
    IN  [answer |-> "Total events: " \o ToString(count), count |-> count]

\* A slip: the group of the anonymous events is left out.
ByUserAnswers_dropNull(coll) ==
    { [answer |-> "Events by user",
       items |-> LET named == SelectSeq(res, LAMBDA r : r._id # None)
                 IN  [i \in DOMAIN named |-> [user_id |-> named[i]._id, count |-> named[i].count]]] :
      res \in aggregate(coll, "user_id", UserLimit) }

ByUserAnswers(coll) ==
    { [answer |-> "Events by user",
       items |-> [i \in DOMAIN res |-> [user_id |-> res[i]._id, count |-> res[i].count]]] :
      res \in aggregate(coll, "user_id", UserLimit) }

\* A slip: the limit of the by-user pipeline in the by-event pipeline.
ByEventAnswers_limit20(coll) ==
    { [answer |-> "Events by event name",
       items |-> [i \in DOMAIN res |-> [event |-> res[i]._id, count |-> res[i].count]]] :
      res \in aggregate(coll, "event", UserLimit) }

ByEventAnswers(coll) ==
    { [answer |-> "Events by event name",
       items |-> [i \in DOMAIN res |-> [event |-> res[i]._id, count |-> res[i].count]]] :
      res \in aggregate(coll, "event", EventLimit) }

\* r["id"] = str(r.pop("_id")); the timestamp as an ISO string
RecentItem(r) ==
    [k \in (DOMAIN r \ {"_id"}) \cup {"id"} |->
        IF k = "id" THEN StrOfId(r["_id"])
        ELSE IF k = "timestamp" /\ IsDatetime(r[k]) THEN isoformat(r[k])
        ELSE r[k]]

\* A slip: no sort, the first documents of the collection are returned.
RecentAnswers_unsorted(coll) ==
    { [answer |-> "Showing recent events",
       items |-> [i \in 1 .. Min(RecentLimit, Len(coll)) |->
                    RecentItem([k \in {"_id", "event", "user_id", "timestamp"} |-> coll[i][k]])]] }

RecentAnswers(coll) ==
    { [answer |-> "Showing recent events",
       items |-> [i \in DOMAIN recent |-> RecentItem(recent[i])]] :
      recent \in find_recent(coll, {"event", "user_id", "timestamp"}, RecentLimit) }

\* The store primitive each intent runs.
Primitive(intent) ==
    CASE intent = "total" -> "count_documents"
      [] intent \in {"by_user", "by_event"} -> "aggregate"
      [] OTHER -> "find"

\* Every response ask_question may give to the body b.
ask_question(b, up) ==
    IF ~AskPayloadValid(b) THEN {Unprocessable("ask", b)}
    ELSE LET q == strip(lower(b.question.v))
             intent == Intent(q, AskEvent(b))
         IN  IF ~up
             THEN {ServerError("ask", b, StorageFailureMsg, Primitive(intent))}
             ELSE { Response("ask", b, 200, body, Primitive(intent)) :
                    body \in CASE intent = "total" -> {TotalAnswer(store, AskEvent(b))}
                               [] intent = "by_user" -> ByUserAnswers(store)
                               [] intent = "by_event" -> ByEventAnswers(store)
                               [] OTHER -> RecentAnswers(store) }

Ask(b, up) ==
    /\ Listening
    /\ resp' \in ask_question(b, up)
    /\ UNCHANGED <<store, now, workers, accepted>>

(* ------------------------------ system --------------------------------- *)

\* The process clock advances.
Tick ==
    /\ Listening
    /\ now < MaxClock
    /\ now' = now + 1
    /\ UNCHANGED <<store, workers, resp, accepted>>

Init ==
    /\ store = <<>>
    /\ now = 0
    /\ workers = [w \in Workers |-> IdleWorker]
    /\ resp = NoResponse
    /\ accepted = <<>>

Next ==
    \/ Tick
    \/ \E w \in Workers, b \in IngestBodies : IngestBegin(w, b)
    \/ \E w \in Workers, up \in BOOLEAN : IngestInsert(w, up)
    \/ \E l \in ListLimits, up \in BOOLEAN : List(l, up)
    \/ \E b \in QueryBodies, up \in BOOLEAN : Query(b, up)
    \/ \E b \in CoreAskBodies, up \in BOOLEAN : Ask(b, up)
    \/ Reply

Spec == Init /\ [][Next]_vars

(* ----------------- asking a collection filled earlier ------------------ *)

\* What ingest_event persists for the body b accepted at the instant at.
Persist(coll, b, at) ==
    InsertOne(coll, WithTimestamp(Event(IngestEventPayload(b)), at))

PreBodies ==
    [event : {Str(e) : e \in EventNames},
     user_id : {Absent, Str("u1"), Str("u2")},
     properties : {Absent},
     timestamp : {Absent}]

RECURSIVE StoresOfLen(_)
StoresOfLen(n) ==
    IF n = 0 THEN {<<>>}
    ELSE {Persist(s, b, at) : s \in StoresOfLen(n - 1), b \in PreBodies, at \in 0 .. 1}

Triangle(j) == (j * (j + 1)) \div 2
\* Documents 1, 2-3, 4-6, ... form groups 1, 2, 3, ... of 1, 2, 3, ... members.
GroupOf(i) == CHOOSE j \in 1 .. i : Triangle(j - 1) < i /\ i <= Triangle(j)

\* More users than the by-user answer holds, each with its own number of
\* events; the last and largest group is anonymous.
ManyUsers ==
    LET groups == UserLimit + 2
    IN  [i \in 1 .. Triangle(groups) |->
            [_id |-> ObjectId(i), event |-> Str("signup"),
             user_id |-> IF GroupOf(i) = groups THEN None
                         ELSE Str("u" \o ToString(GroupOf(i))),
             properties |-> EmptyDict, timestamp |-> Datetime(i)]]

\* More event names than the by-event answer holds.
ManyEvents ==
    LET groups == EventLimit + 1
    IN  [i \in 1 .. Triangle(groups) |->
            [_id |-> ObjectId(i), event |-> Str("e" \o ToString(GroupOf(i))),
             user_id |-> Str("u1"),
             properties |-> EmptyDict, timestamp |-> Datetime(i)]]

\* The collection after signup by u1, signup by u2 and login by u1.
Scenario ==
    Persist(Persist(Persist(<<>>,
        IngestBody(Str("signup"), Str("u1"), Absent, Absent), 0),
        IngestBody(Str("signup"), Str("u2"), Absent, Absent), 0),
        IngestBody(Str("login"), Str("u1"), Absent, Absent), 1)

PreStores ==
    UNION {StoresOfLen(n) : n \in 0 .. MaxPreload} \cup {Scenario, ManyUsers, ManyEvents}

InitAsk ==
    /\ store \in PreStores
    /\ now = 0
    /\ workers = [w \in Workers |-> IdleWorker]
    /\ resp = NoResponse
    /\ accepted = <<>>

NextAsk ==
    \/ \E b \in AskBodies, up \in BOOLEAN : Ask(b, up)
    \/ Reply

SpecAsk == InitAsk /\ [][NextAsk]_vars

(* ============================== claims ================================= *)

AskOk == resp.op = "ask" /\ resp.status = 200
AskedQuestion == strip(lower(resp.req.question.v))
Has(needle) == Contains(needle, AskedQuestion)

\* The intent a successful ask response shows.
ChosenIntent ==
    IF "count" \in DOMAIN resp.body THEN "total"
    ELSE CASE resp.body.answer = "Events by user" -> "by_user"
           [] resp.body.answer = "Events by event name" -> "by_event"
           [] resp.body.answer = "Showing recent events" -> "recent"
           [] OTHER -> "unknown"

\* The ordered rule list, with `supplied` saying whether an eventFilter counts
\* as supplied.
RuleTotal(supplied) == Has(N_total) \/ (Has(N_how_many) /\ (Has(N_event) \/ supplied))
RuleByUser == Has(N_by_user) \/ Has(N_per_user)
RuleByEvent == Has(N_by_event) \/ Has(N_per_event) \/ Has(N_events_by_name)
FirstMatch(supplied) ==
    CASE RuleTotal(supplied) -> "total"
      [] ~RuleTotal(supplied) /\ RuleByUser -> "by_user"
      [] ~RuleTotal(supplied) /\ ~RuleByUser /\ RuleByEvent -> "by_event"
      [] OTHER -> "recent"

FilterGiven == resp.req.event.t = "str"
FilterNonEmpty == resp.req.event.t = "str" /\ resp.req.event.v # ""

\* C1 (as amended): the intent of every answered question is the first match
\* of the ordered rule list total-count, by-user, by-event, fallback, where
\* an eventFilter counts as supplied when it is a non-empty string; "total
\* events by user" resolves to total-count.
C1_Dispatch ==
    AskOk =>
        /\ ChosenIntent = FirstMatch(FilterNonEmpty)
        /\ resp.req.question.v = Q_total_events_by_user => ChosenIntent = "total"

\* C1 (as stated): the same, with every explicitly supplied eventFilter
\* counting, the empty string included.
C1_Original == AskOk => ChosenIntent = FirstMatch(FilterGiven)

C1_Witness ==
    /\ AskOk
    /\ resp.req.question.v = Q_how_many_signup
    /\ resp.req.event = Str("")
    /\ ChosenIntent = "recent"

\* C2: every persisted event has a timestamp that is an instant, never null;
\* it is the clock's instant at acceptance exactly when the body omitted the
\* timestamp, and the caller's value otherwise.
C2_Timestamp ==
    /\ Len(accepted) = Len(store)
    /\ \A i \in 1 .. Len(store) :
        /\ "timestamp" \in DOMAIN store[i]
        /\ store[i]["timestamp"].t = "datetime"
        /\ IF accepted[i].body.timestamp.t \in {"absent", "NoneType"}
           THEN store[i]["timestamp"].v = accepted[i].at
           ELSE isoformat(store[i]["timestamp"]) = accepted[i].body.timestamp

C2_Witness ==
    \E i, j \in 1 .. Len(store) :
        /\ accepted[i].body.timestamp = Absent
        /\ accepted[i].at = 1
        /\ store[i]["timestamp"] = Datetime(1)
        /\ accepted[j].body.timestamp = isoformat(Datetime(0))
        /\ accepted[j].at = 1
        /\ store[j]["timestamp"] = Datetime(0)

CountWhere(f, val) == Cardinality({i \in 1 .. Len(store) : store[i][f] = val})

\* C3 (as amended): a total-count answer counts the persisted events named
\* by a non-empty eventFilter, and all persisted events when the eventFilter
\* is absent or empty; the answer reads "Total events: {count}"; in the
\* scenario signup/u1, signup/u2, login/u1 the count of signup is 2.
C3_TotalCount ==
    (AskOk /\ ChosenIntent = "total") =>
        /\ resp.body.count =
              IF FilterNonEmpty THEN CountWhere("event", resp.req.event) ELSE Len(store)
        /\ resp.body.answer = "Total events: " \o ToString(resp.body.count)
        /\ (store = Scenario /\ resp.req.event = Str("signup")) => resp.body.count = 2

\* C3 (as stated): the count is that of the events named by the eventFilter
\* whenever one was supplied.
C3_Original ==
    (AskOk /\ ChosenIntent = "total") =>
        resp.body.count =
            IF FilterGiven THEN CountWhere("event", resp.req.event) ELSE Len(store)

C3_Witness ==
    /\ AskOk
    /\ store = Scenario
    /\ resp.req.question.v = Q_how_many_signup
    /\ resp.req.event = Str("signup")
    /\ resp.body.count = 2
    /\ resp.body.answer = "Total events: 2"

\* The group keys of field f in the collection.
KeysOf(f) == {store[i][f] : i \in 1 .. Len(store)}

\* items lists groups of field f: one item per key, each with the number of
\* its events, by count descending, cut to the n largest groups.
IsTopGroups(items, f, n) ==
    /\ Len(items) = Min(n, Cardinality(KeysOf(f)))
    /\ \A i \in DOMAIN items :
        /\ DOMAIN items[i] = {f, "count"}
        /\ items[i][f] \in KeysOf(f)
        /\ items[i].count = CountWhere(f, items[i][f])
    /\ \A i, j \in DOMAIN items : i < j =>
        /\ items[i][f] # items[j][f]
        /\ items[i].count >= items[j].count
    /\ \A k \in KeysOf(f) :
        (\A i \in DOMAIN items : items[i][f] # k) =>
            \A i \in DOMAIN items : items[i].count >= CountWhere(f, k)

\* C4: a by-user answer lists one {user_id, count} item per group of the
\* persisted events by user_id, the anonymous events forming the group of
\* key null, each with its exact count, by count descending, cut to 20.
C4_ByUser ==
    (AskOk /\ ChosenIntent = "by_user") =>
        /\ IsTopGroups(resp.body.items, "user_id", 20)
        /\ (None \in KeysOf("user_id") /\ Cardinality(KeysOf("user_id")) <= 20) =>
              \E i \in DOMAIN resp.body.items :
                  /\ resp.body.items[i].user_id = None
                  /\ resp.body.items[i].count = CountWhere("user_id", None)

C4_Witness ==
    /\ AskOk
    /\ ChosenIntent = "by_user"
    /\ Cardinality(KeysOf("user_id")) > 20
    /\ Len(resp.body.items) = 20
    /\ resp.body.items[1] = [user_id |-> None, count |-> 22]

\* C5: a by-event answer lists one {event, count} item per stored event
\* name with its exact count, by count descending, cut to 50; in the
\* scenario signup, signup, login it is signup: 2, then login: 1.
C5_ByEvent ==
    (AskOk /\ ChosenIntent = "by_event") =>
        /\ IsTopGroups(resp.body.items, "event", 50)
        /\ store = Scenario =>
              resp.body.items = << [event |-> Str("signup"), count |-> 2],
                                   [event |-> Str("login"), count |-> 1] >>

C5_Witness ==
    /\ AskOk
    /\ ChosenIntent = "by_event"
    /\ Cardinality(KeysOf("event")) > 50
    /\ Len(resp.body.items) = 50
    /\ resp.body.items[50].count = 2

\* Some stored document has the identifier whose string form the item carries.
HasDoc(item) ==
    /\ "id" \in DOMAIN item
    /\ \E k \in 1 .. Len(store) : StrOfId(store[k]["_id"]) = item["id"]
\* The place in the collection of the document that the item stands for.
IndexOf(item) == CHOOSE k \in 1 .. Len(store) : StrOfId(store[k]["_id"]) = item["id"]

Unrecognized == ~RuleTotal(FilterNonEmpty) /\ ~RuleByUser /\ ~RuleByEvent

\* C6: a question that matches no trigger, the empty one included, fails
\* only when the store does; its answer is "Showing recent events" with the
\* 20 most recent events at most, by timestamp descending, each projected to
\* event, user_id, timestamp and a string id.
C6_Fallback ==
    (resp.op = "ask" /\ resp.req.question.t = "chars" /\ Unrecognized) =>
        /\ resp.status \in {200, 500}
        /\ resp.status = 500 =>
              resp.called = "find" /\ resp.body = [detail |-> StorageFailureMsg]
        /\ resp.status = 200 =>
              LET items == resp.body.items
                  shown == {IndexOf(items[i]) : i \in DOMAIN items}
                  TsOf(i) == store[IndexOf(items[i])]["timestamp"].v
                  oldest == TsOf(Len(items))
              IN  /\ resp.body.answer = "Showing recent events"
                  /\ Len(items) = Min(20, Len(store))
                  /\ \A i \in DOMAIN items :
                      /\ DOMAIN items[i] = {"event", "user_id", "timestamp", "id"}
                      /\ items[i]["id"].t = "str"
                      /\ HasDoc(items[i])
                      /\ items[i]["event"] = store[IndexOf(items[i])]["event"]
                      /\ items[i]["user_id"] = store[IndexOf(items[i])]["user_id"]
                      /\ items[i]["timestamp"] = isoformat(store[IndexOf(items[i])]["timestamp"])
                  /\ Cardinality(shown) = Len(items)
                  /\ \A i \in 1 .. (Len(items) - 1) : TsOf(i) >= TsOf(i + 1)
                  /\ \A k \in (1 .. Len(store)) \ shown : oldest >= store[k]["timestamp"].v

C6_Witness ==
    /\ AskOk
    /\ resp.req.question.v = Q_asdkjasdlkj
    /\ Len(store) > 20
    /\ Len(resp.body.items) = 20
    /\ resp.body.items[1]["timestamp"] = isoformat(Datetime(Len(store)))

\* A successful ingest response has just been produced.
IngestAnswered == resp = NoResponse /\ resp'.op = "ingest" /\ resp'.status = 200

\* C7: in every step of every interleaving of the workers, the persisted
\* events stay as they are; a successful ingest adds exactly one record,
\* under an identifier no earlier record has and which the response
\* carries, be its payload a duplicate or not; no other step adds one.
C7_OneRecordPerIngest ==
    [][ /\ Len(store') >= Len(store)
        /\ SubSeq(store', 1, Len(store)) = store
        /\ IF IngestAnswered
           THEN /\ Len(store') = Len(store) + 1
                /\ StrOfId(store'[Len(store')]["_id"]) = resp'.body.id
                /\ \A i \in 1 .. Len(store) : store[i]["_id"] # store'[Len(store')]["_id"]
           ELSE store' = store ]_vars

\* Two events persisted in the order opposite to their acceptance, and two
\* records of one and the same payload.
C7_Witness ==
    /\ \E i, j \in 1 .. Len(store) :
        i < j /\ accepted[i].at > accepted[j].at
    /\ \E i, j \in 1 .. Len(store) :
        /\ i < j
        /\ accepted[i] = accepted[j]
        /\ store[i]["_id"] # store[j]["_id"]
        /\ \A k \in DOMAIN store[i] \ {"_id"} : store[i][k] = store[j][k]

\* The request does not fit the parameter model its handler declares.
ParamModelFails ==
    CASE resp.op = "ingest" ->
            \/ resp.req.event.t # "str"
            \/ (resp.req.timestamp.t = "str" /\ ~IsIsoString(resp.req.timestamp))
      [] resp.op = "list" -> resp.req.t = "int" /\ (resp.req.v < 1 \/ resp.req.v > 500)
      [] resp.op = "query" -> resp.req.limit.t \notin {"absent", "int"}
      [] resp.op = "ask" -> resp.req.question.t = "absent"
      [] OTHER -> FALSE

\* C8 (as amended): a failure raised inside a handler, by the store or by
\* the construction of the Event, becomes a 500 response that carries the
\* error's message, the same for both causes; a request that does not fit
\* the declared parameter model (no event name, a limit outside 1..500) is
\* answered 422 before the handler runs, and the store is not called.
C8_Failures ==
    resp # NoResponse =>
        /\ resp.status \in {200, 422, 500}
        /\ resp.status = 422 <=> ParamModelFails
        /\ resp.status = 422 => resp.called = "none"
        /\ resp.status = 500 =>
            /\ DOMAIN resp.body = {"detail"}
            /\ resp.body.detail \in {StorageFailureMsg, ValidationErrorMsg}
            /\ resp.called # "none" => resp.body.detail = StorageFailureMsg

\* C8 (as stated): every failing request is answered by the same server-side
\* failure response.
C8_Original ==
    (resp # NoResponse /\ resp.status # 200) =>
        resp.status = 500 /\ DOMAIN resp.body = {"detail"}

C8_Witness ==
    /\ resp.op = "ingest"
    /\ resp.status = 500
    /\ resp.called = "insert"
    /\ resp.body = [detail |-> StorageFailureMsg]
    /\ Len(store) = 2

\* C9: list rejects a limit exactly when it is given and outside 1..500,
\* without calling the store; 0 and 501 are rejected, 1 and 500 are not; an
\* answered call returns at most limit items, 50 when no limit is given.
C9_ListLimit ==
    resp.op = "list" =>
        /\ resp.status = 422 <=> (resp.req.t = "int" /\ (resp.req.v < 1 \/ resp.req.v > 500))
        /\ resp.status = 422 => resp.called = "none" /\ "items" \notin DOMAIN resp.body
        /\ resp.req \in {IntV(0), IntV(501)} => resp.status = 422
        /\ resp.req \in {IntV(1), IntV(500)} => resp.status \in {200, 500}
        /\ resp.status = 200 =>
            Len(resp.body.items) <= (IF resp.req.t = "int" THEN resp.req.v ELSE 50)

C9_Witness ==
    /\ resp.op = "list"
    /\ resp.req = IntV(1)
    /\ resp.status = 200
    /\ Len(store) = 3
    /\ Len(resp.body.items) = 1

\* The item is the stored document made fit for transport: every field it
\* carries besides id is a field of the document, an instant as its
\* ISO-8601 string and any other value unchanged.
Transported(doc, item) ==
    /\ "_id" \notin DOMAIN item
    /\ item["id"].t = "str"
    /\ item["id"] = StrOfId(doc["_id"])
    /\ \A k \in DOMAIN item \ {"id"} :
        /\ k \in DOMAIN doc
        /\ IF doc[k].t = "datetime"
           THEN /\ item[k].t = "str"
                /\ IsIsoString(item[k])
                /\ fromisoformat(item[k]) = doc[k]
           ELSE item[k] = doc[k]

\* C10: every item of a list, query or ask-fallback answer carries the
\* string form of the stored identifier as id and no _id, its instants as
\* ISO-8601 strings and its other fields as stored; list and query carry
\* every field of the document, the properties mapping included.
C10_Normalized ==
    (/\ resp.status = 200
     /\ \/ resp.op \in {"list", "query"}
        \/ resp.op = "ask" /\ ChosenIntent = "recent") =>
        \A i \in DOMAIN resp.body.items :
            LET item == resp.body.items[i]
            IN  /\ HasDoc(item)
                /\ Transported(store[IndexOf(item)], item)
                /\ resp.op \in {"list", "query"} =>
                      DOMAIN item = (DOMAIN store[IndexOf(item)] \ {"_id"}) \cup {"id"}

C10_Witness ==
    /\ resp.op = "query"
    /\ resp.status = 200
    /\ Len(resp.body.items) = 1
    /\ resp.body.items[1] =
          [id |-> StrOfId(ObjectId(1)), event |-> Str("login"), user_id |-> None,
           properties |-> Dict(Props1), timestamp |-> Str("1970-01-01T00:00:01+00:00")]

====
